---- MODULE Spec2Model ----
(***************************************************************************)
(* Model of src/main.py (wansatya/goleki): the asynchronous query/job      *)
(* lifecycle (create_query, TaskManager.add_task, process_query_background,*)
(* get_query_result, get_system_status) and the evidence pipeline of       *)
(* WebSearcher.process_query.                                              *)
(*                                                                         *)
(* Execution model: every handler and every worker is a coroutine on ONE   *)
(* asyncio event loop.  A coroutine runs without interruption until it     *)
(* awaits something that is not ready.  The only such points are           *)
(*   - `await task` in TaskManager.add_task (line 294), and                *)
(*   - `await client.get(...)` inside fetch_webpage_content (line 157).    *)
(* search_web (requests.post) and the two Groq calls are synchronous and   *)
(* keep the loop.  The variable `running` names the worker that currently  *)
(* holds the loop (0: the loop is free); request handlers, which contain   *)
(* no suspension point other than add_task's, run as single steps and      *)
(* only when the loop is free.  The timestamps created_at / last_updated   *)
(* are not modelled.                                                       *)
(***************************************************************************)
EXTENDS Integers, Sequences, FiniteSets, TLC

VARIABLES
    query_store,   \* line 49: query_id -> record
    tasks,         \* TaskManager.tasks (line 288): the ids that have an entry
    worker,        \* query_id -> frame of process_query_background / process_query
    running,       \* the worker holding the event loop, 0 if none
    next_id,       \* stands for uuid.uuid4(): the next fresh id
    response,      \* the HTTP response most recently sent by a handler
    env            \* the inputs the environment may supply in this run

vars == <<query_store, tasks, worker, running, next_id, response, env>>

(***************************************************************************)
(* Bounds                                                                  *)
(***************************************************************************)
MaxJobs == 2        \* submissions in a run of the lifecycle specification
MaxHits == 2        \* hits the provider returns (collection specification)
MaxNumResults == 2  \* largest num_results submitted
LifecycleHits == 1  \* hits the provider returns (lifecycle specification)

\* An Optional[...] value: None is the empty tuple, a present value v is <<v>>.
None == <<>>
Some(v) == <<v>>

JobIds == 1..MaxJobs

(***************************************************************************)
(* Values                                                                  *)
(***************************************************************************)
Queries == {"qa", "qb"}

\* QueryRequest.num_results (line 53): Optional[int] with no range check.
NumResultsValues == {None} \cup {Some(n) : n \in (0 - 1)..MaxNumResults}

\* A URL is modelled by what urlparse makes of it: whether parsing raises,
\* and the words occurring in its network location.
Url(valid, words) == [valid |-> valid, netloc |-> words]
NewsUrl == Url(TRUE, {"news"})
SpamUrl == Url(TRUE, {"news", "spam"})
BadUrl == Url(FALSE, {})
\* result['link'], None when the hit has no 'link' key
LinkValues == {None, Some(NewsUrl), Some(SpamUrl), Some(BadUrl)}

\* lines 80-87
suspicious_patterns ==
    {"free-download", "miracle-solution", "secret-revealed",
     "one-weird-trick", "spam", "scam"}

\* lines 70-91: ContentVerifier.is_credible_domain
NoPatternCheck(url) == url.valid
is_credible_domain(url) ==
    IF ~url.valid THEN FALSE
    ELSE url.netloc \cap suspicious_patterns = {}

\* A text is modelled by its length after strip() and by whether its
\* lower-cased form contains one of the spam_patterns (lines 102-108).
Text(err, tlen, spam) == [err |-> err, tlen |-> tlen, spam |-> spam]

MinContentLength == 50     \* line 98
MaxContentLength == 4000   \* line 173
ErrorPrefixLength == 24    \* line 176: len("Error fetching content: ")

\* lines 94-110: ContentVerifier.check_content_quality
NoSpamCheck(text) == ~(text.tlen = 0 \/ text.tlen < MinContentLength)
NoLengthCheck(text) == ~text.spam
check_content_quality(text) ==
    IF text.tlen = 0 \/ text.tlen < MinContentLength THEN FALSE
    ELSE ~text.spam

Min(a, b) == IF a < b THEN a ELSE b

\* What the network gives for one page fetch: a page (its extracted text
\* length and spam flag) or an exception with a message of some length.
Page(tlen, spam) == [ok |-> TRUE, tlen |-> tlen, spam |-> spam]
FetchError(msglen) == [ok |-> FALSE, tlen |-> msglen, spam |-> FALSE]

GoodPage == Page(60, FALSE)
ShortPage == Page(10, FALSE)
SpamPage == Page(5000, TRUE)
ShortError == FetchError(5)
LongError == FetchError(40)
FetchOutcomes == {GoodPage, ShortPage, SpamPage, ShortError, LongError}

\* lines 150-176: WebSearcher.fetch_webpage_content
fetch_webpage_content(outcome) ==
    IF outcome.ok
    THEN Text(FALSE, Min(outcome.tlen, MaxContentLength), outcome.spam)
    ELSE Text(TRUE,
              IF outcome.tlen = 0 THEN ErrorPrefixLength - 1
              ELSE ErrorPrefixLength + outcome.tlen,
              outcome.spam)

\* One organic search result (lines 143-145): the provider's rank-th hit for
\* query q; its title and snippet are identified by <<q, rank>>.
Hit(q, rank, link) == [q |-> q, rank |-> rank, link |-> link]

SeqsUpTo(S, n) == UNION {[1..k -> S] : k \in 0..n}

\* The result lists the provider may return for query q.
HitLists(q, links, n) ==
    {[i \in 1..Len(ls) |-> Hit(q, i, ls[i])] : ls \in SeqsUpTo(links, n)}

\* lines 202-206 and 207-211
VerifiedContent(hit, content) ==
    [url |-> hit.link[1], title |-> <<hit.q, hit.rank>>, content |-> content]
VerifiedSource(hit) ==
    [url |-> hit.link[1], title |-> <<hit.q, hit.rank>>, snippet |-> <<hit.q, hit.rank>>]

\* line 198
UncheckedLinkTest(result) == result.link # None
LinkTest(result) == result.link # None /\ is_credible_domain(result.link[1])

\* line 213
OffByOneLimit(verified_contents, num_results) == Len(verified_contents) > num_results
ReachedLimit(verified_contents, num_results) == Len(verified_contents) >= num_results

\* lines 188-191 and 217-220
NoResultsAnswer == [text |-> "I couldn't find any reliable search results for your query."]
UnverifiedAnswer == [text |-> "I found some results but couldn't verify their reliability."]
CannedResult(answer) == [answer |-> answer, sources |-> <<>>]

\* lines 223-236, 253-262: the prompts; 240-250, 264-274: the model's replies
DraftPrompt(user_query, verified_contents) ==
    [kind |-> "draft", query |-> user_query, evidence |-> verified_contents]
VerificationPrompt(initial_answer) ==
    [kind |-> "verify", original |-> initial_answer]
Completion(prompt) == [reply_to |-> prompt]

(***************************************************************************)
(* Job records and worker frames                                           *)
(***************************************************************************)
\* lines 348-358
NewQuery(query_id, query) ==
    [query_id |-> query_id, status |-> "initiated", query |-> query,
     error |-> None, answer |-> None, sources |-> None,
     processing_time |-> None]

\* lines 315-318
NoSearchingUpdate(rec) == rec
SearchingUpdate(rec) == [rec EXCEPT !.status = "searching"]

\* lines 326-332
CompletedWithoutSources(rec, result) ==
    [rec EXCEPT !.status = "completed", !.answer = Some(result.answer),
                !.processing_time = Some("elapsed")]
CompletedUpdate(rec, result) ==
    [rec EXCEPT !.status = "completed", !.answer = Some(result.answer),
                !.sources = Some(result.sources),
                !.processing_time = Some("elapsed")]

\* lines 337-341
FailedKeepingStatus(rec, error_msg) == [rec EXCEPT !.error = Some(error_msg)]
FailedUpdate(rec, error_msg) ==
    [rec EXCEPT !.status = "failed", !.error = Some(error_msg)]

\* The frame of one worker: the locals of process_query_background and of
\* the process_query call it awaits.  searched, fetched and prompts record the
\* outbound calls made so far (the provider's `num`, each fetched hit with the
\* text obtained, each prompt submitted to the model).
NewWorker(query, num_results) ==
    [pc |-> "scheduled", query |-> query, num_results |-> num_results,
     search_results |-> <<>>, idx |-> 0,
     verified_contents |-> <<>>, verified_sources |-> <<>>,
     initial_answer |-> None, result |-> None, exc |-> None,
     searched |-> <<>>, fetched |-> <<>>, prompts |-> <<>>]

\* asyncio.Task.done() / Task.exception() of the task stored for query_id.
\* process_query_background catches every Exception (line 334), so the task
\* never ends with one.
TaskDone(wk, query_id) == wk[query_id].pc = "done"
TaskException(wk, query_id) == None

Terminal(status) == status \in {"completed", "failed"}

(***************************************************************************)
(* Environments: the inputs a run may receive                              *)
(***************************************************************************)
\* Several clients whose successive submissions alternate between the two
\* queries; short result lists.
LifecycleEnv ==
    [jobs |-> MaxJobs,
     queries |-> [i \in JobIds |-> IF i % 2 = 1 THEN {"qa"} ELSE {"qb"}],
     nums |-> {Some(1)}, links |-> {Some(NewsUrl)}, hits |-> LifecycleHits,
     outcomes |-> {GoodPage, ShortPage}, failures |-> TRUE]

\* One client, every kind of hit, page and num_results.
CollectEnv ==
    [jobs |-> 1, queries |-> [i \in JobIds |-> Queries],
     nums |-> NumResultsValues, links |-> LinkValues, hits |-> MaxHits,
     outcomes |-> FetchOutcomes, failures |-> TRUE]

NoResponse == [op |-> "none"]

InitWith(e) ==
    /\ query_store = <<>>
    /\ tasks = {}
    /\ worker = <<>>
    /\ running = 0
    /\ next_id = 1
    /\ response = NoResponse
    /\ env = e

Init == InitWith(LifecycleEnv)
InitCollect == InitWith(CollectEnv)

\* The lifecycle environment with result lists of at most one hit and pages
\* that pass the quality check: what a worker does between its start and its
\* end is kept short, the submissions, failures and interleavings are kept.
FairEnv == [LifecycleEnv EXCEPT !.hits = 1, !.outcomes = {GoodPage}]
InitFair == InitWith(FairEnv)

(***************************************************************************)
(* Request handlers                                                        *)
(***************************************************************************)
Snapshot(rec) == rec     \* QueryResponse(**record), lines 55-64

\* lines 343-364 with TaskManager.add_task lines 290-294: the record is
\* stored, the task created and registered, and the handler suspends in
\* `await task`.  Nothing is returned yet.
create_query_unregistered(query, num_results) ==
    /\ running = 0
    /\ next_id <= env.jobs
    /\ query \in env.queries[next_id]
    /\ query_store' = query_store @@ (next_id :> NewQuery(next_id, query))
    /\ worker' = worker @@ (next_id :> NewWorker(query, num_results))
    /\ next_id' = next_id + 1
    /\ UNCHANGED <<tasks, running, response, env>>
create_query(query, num_results) ==
    /\ running = 0
    /\ next_id <= env.jobs
    /\ query \in env.queries[next_id]
    /\ query_store' = query_store @@ (next_id :> NewQuery(next_id, query))
    /\ tasks' = tasks \cup {next_id}
    /\ worker' = worker @@ (next_id :> NewWorker(query, num_results))
    /\ next_id' = next_id + 1
    /\ UNCHANGED <<running, response, env>>

\* lines 295-298 and 366: the awaited task has finished; add_task removes the
\* entry and create_query returns the record as it is now.
add_task_keeping_failed(query_id) ==
    /\ running = 0
    /\ query_id \in tasks
    /\ TaskDone(worker, query_id)
    /\ tasks' = IF query_store[query_id].status = "completed"
                THEN tasks \ {query_id} ELSE tasks
    /\ response' = [op |-> "create", id |-> query_id, code |-> 200,
                    body |-> Snapshot(query_store[query_id])]
    /\ UNCHANGED <<query_store, worker, running, next_id, env>>
add_task_resume(query_id) ==
    /\ running = 0
    /\ query_id \in tasks
    /\ TaskDone(worker, query_id)
    /\ tasks' = tasks \ {query_id}
    /\ response' = [op |-> "create", id |-> query_id, code |-> 200,
                    body |-> Snapshot(query_store[query_id])]
    /\ UNCHANGED <<query_store, worker, running, next_id, env>>

\* lines 375-383: the record get_query_result leaves in the store.  `result`
\* aliases the stored dict, so the two assignments write the store.
ReadMarksDoneFailed(store, tks, wk, query_id) ==
    IF query_id \in tks /\ TaskDone(wk, query_id)
    THEN [store EXCEPT ![query_id] = FailedUpdate(@, "task exception")]
    ELSE store
ReadStore(store, tks, wk, query_id) ==
    IF /\ query_id \in tks
       /\ TaskDone(wk, query_id)
       /\ TaskException(wk, query_id) # None
    THEN [store EXCEPT ![query_id] =
              FailedUpdate(@, TaskException(wk, query_id)[1])]
    ELSE store

\* lines 368-386
get_query_result(query_id) ==
    /\ running = 0
    /\ IF query_id \notin DOMAIN query_store
       THEN /\ response' = [op |-> "get", id |-> query_id, code |-> 404,
                            body |-> None]
            /\ UNCHANGED query_store
       ELSE /\ query_store' = ReadStore(query_store, tasks, worker, query_id)
            /\ response' = [op |-> "get", id |-> query_id, code |-> 200,
                            body |-> Some(Snapshot(query_store'[query_id]))]
    /\ UNCHANGED <<tasks, worker, running, next_id, env>>

\* lines 388-397
StatusCountingTasks(store, tks) ==
    [active_tasks |-> Cardinality(tks),
     total_queries |-> Cardinality(tks),
     queries_by_status |->
        [st \in {store[i].status : i \in DOMAIN store} |->
            Cardinality({i \in DOMAIN store : store[i].status = st})]]
SystemStatus(store, tks) ==
    [active_tasks |-> Cardinality(tks),
     total_queries |-> Cardinality(DOMAIN store),
     queries_by_status |->
        [st \in {store[i].status : i \in DOMAIN store} |->
            Cardinality({i \in DOMAIN store : store[i].status = st})]]

get_system_status ==
    /\ running = 0
    /\ response' = [op |-> "status", id |-> 0, code |-> 200,
                    body |-> SystemStatus(query_store, tasks)]
    /\ UNCHANGED <<query_store, tasks, worker, running, next_id, env>>

(***************************************************************************)
(* The worker: process_query_background and WebSearcher.process_query      *)
(***************************************************************************)
Frame(query_id) == worker[query_id]
SetFrame(query_id, f) == worker' = [worker EXCEPT ![query_id] = f]

\* lines 282-284 and 334-336: the exception leaves process_query and is
\* caught by process_query_background.
FallBackToDraft(f, msg) ==
    IF f.initial_answer # None
    THEN [f EXCEPT !.pc = "complete",
                   !.result = Some([answer |-> f.initial_answer[1],
                                    sources |-> f.verified_sources])]
    ELSE [f EXCEPT !.pc = "except", !.exc = Some(msg)]
Raise(f, msg) == [f EXCEPT !.pc = "except", !.exc = Some(msg)]

\* lines 309-318: the task's first step takes the loop and writes `searching`.
worker_start(query_id) ==
    /\ running = 0
    /\ query_id \in DOMAIN worker
    /\ Frame(query_id).pc = "scheduled"
    /\ running' = query_id
    /\ query_store' = [query_store EXCEPT ![query_id] = SearchingUpdate(@)]
    /\ SetFrame(query_id, [Frame(query_id) EXCEPT !.pc = "search"])
    /\ UNCHANGED <<tasks, next_id, response, env>>

\* lines 185-195 with search_web lines 129-148.  `num_results * 2` raises a
\* TypeError when num_results is None; the provider call raises or returns
\* its organic results.
SearchReturn(f, hits) ==
    LET g == [f EXCEPT !.searched = Append(@, f.num_results[1] * 2),
                       !.search_results = hits]
    IN  IF hits = <<>>
        THEN [g EXCEPT !.pc = "complete",
                       !.result = Some(CannedResult(NoResultsAnswer))]
        ELSE [g EXCEPT !.pc = "loop", !.idx = 1]

search_web(query_id) ==
    /\ running = query_id
    /\ Frame(query_id).pc = "search"
    /\ LET f == Frame(query_id) IN
       IF f.num_results = None
       THEN SetFrame(query_id, Raise(f, "TypeError"))
       ELSE \/ /\ env.failures
               /\ SetFrame(query_id,
                      Raise([f EXCEPT !.searched = Append(@, f.num_results[1] * 2)],
                            "search failed"))
            \/ \E hits \in HitLists(f.query, env.links, env.hits) :
                   SetFrame(query_id, SearchReturn(f, hits))
    /\ UNCHANGED <<query_store, tasks, running, next_id, response, env>>

\* lines 197-199 and 216-220: the head of the for loop.  A hit with a
\* credible link starts a page fetch, where the worker gives up the loop;
\* any other hit is passed over; after the last hit the collection ends.
AfterLoopUnchecked(f) == [f EXCEPT !.pc = "draft"]
AfterLoop(f) ==
    IF f.verified_contents = <<>>
    THEN [f EXCEPT !.pc = "complete",
                   !.result = Some(CannedResult(UnverifiedAnswer))]
    ELSE [f EXCEPT !.pc = "draft"]

loop_head(query_id) ==
    /\ running = query_id
    /\ Frame(query_id).pc = "loop"
    /\ LET f == Frame(query_id) IN
       IF f.idx > Len(f.search_results)
       THEN /\ SetFrame(query_id, AfterLoop(f))
            /\ UNCHANGED running
       ELSE IF LinkTest(f.search_results[f.idx])
            THEN /\ SetFrame(query_id, [f EXCEPT !.pc = "fetching"])
                 /\ running' = 0
            ELSE /\ SetFrame(query_id, [f EXCEPT !.idx = @ + 1])
                 /\ UNCHANGED running
    /\ UNCHANGED <<query_store, tasks, next_id, response, env>>

\* lines 199-214: the fetch returns its text (a page's, or the synthetic
\* error text), the worker takes the loop again and applies the quality check.
Accept(f, hit, content) ==
    LET g == [f EXCEPT !.verified_contents = Append(@, VerifiedContent(hit, content)),
                       !.verified_sources = Append(@, VerifiedSource(hit))]
    IN  IF ReachedLimit(g.verified_contents, g.num_results[1])
        THEN AfterLoop(g)
        ELSE [g EXCEPT !.pc = "loop", !.idx = @ + 1]

FetchReturn(f, outcome) ==
    LET hit == f.search_results[f.idx]
        content == fetch_webpage_content(outcome)
        g == [f EXCEPT !.fetched = Append(@, [rank |-> hit.rank, content |-> content])]
    IN  IF check_content_quality(content)
        THEN Accept(g, hit, content)
        ELSE [g EXCEPT !.pc = "loop", !.idx = @ + 1]

fetch_return(query_id) ==
    /\ running = 0
    /\ query_id \in DOMAIN worker
    /\ Frame(query_id).pc = "fetching"
    /\ running' = query_id
    /\ \E outcome \in env.outcomes :
           SetFrame(query_id, FetchReturn(Frame(query_id), outcome))
    /\ UNCHANGED <<query_store, tasks, next_id, response, env>>

\* lines 223-250: the draft pass
draft(query_id) ==
    /\ running = query_id
    /\ Frame(query_id).pc = "draft"
    /\ LET f == Frame(query_id)
           prompt == DraftPrompt(f.query, f.verified_contents)
           g == [f EXCEPT !.prompts = Append(@, prompt)]
       IN  \/ /\ env.failures
              /\ SetFrame(query_id, Raise(g, "draft failed"))
           \/ SetFrame(query_id,
                  [g EXCEPT !.pc = "refine",
                            !.initial_answer = Some(Completion(prompt))])
    /\ UNCHANGED <<query_store, tasks, running, next_id, response, env>>

\* lines 252-281: the refinement pass and the returned dict
refine(query_id) ==
    /\ running = query_id
    /\ Frame(query_id).pc = "refine"
    /\ LET f == Frame(query_id)
           prompt == VerificationPrompt(f.initial_answer[1])
           g == [f EXCEPT !.prompts = Append(@, prompt)]
       IN  \/ /\ env.failures
              /\ SetFrame(query_id, Raise(g, "refine failed"))
           \/ SetFrame(query_id,
                  [g EXCEPT !.pc = "complete",
                            !.result = Some([answer |-> Completion(prompt),
                                             sources |-> f.verified_sources])])
    /\ UNCHANGED <<query_store, tasks, running, next_id, response, env>>

\* lines 320-332: process_query returned; the record is completed in one
\* dict.update and the task ends, releasing the loop.
complete_latest(query_id) ==
    /\ running = query_id
    /\ Frame(query_id).pc = "complete"
    /\ query_store' = [query_store EXCEPT ![next_id - 1] =
                           CompletedUpdate(@, Frame(query_id).result[1])]
    /\ SetFrame(query_id, [Frame(query_id) EXCEPT !.pc = "done"])
    /\ running' = 0
    /\ UNCHANGED <<tasks, next_id, response, env>>
complete(query_id) ==
    /\ running = query_id
    /\ Frame(query_id).pc = "complete"
    /\ query_store' = [query_store EXCEPT ![query_id] =
                           CompletedUpdate(@, Frame(query_id).result[1])]
    /\ SetFrame(query_id, [Frame(query_id) EXCEPT !.pc = "done"])
    /\ running' = 0
    /\ UNCHANGED <<tasks, next_id, response, env>>

\* lines 334-341: the except branch; the task ends normally.
except(query_id) ==
    /\ running = query_id
    /\ Frame(query_id).pc = "except"
    /\ query_store' = [query_store EXCEPT ![query_id] =
                           FailedUpdate(@, Frame(query_id).exc[1])]
    /\ SetFrame(query_id, [Frame(query_id) EXCEPT !.pc = "done"])
    /\ running' = 0
    /\ UNCHANGED <<tasks, next_id, response, env>>

(***************************************************************************)
(* Specifications                                                          *)
(***************************************************************************)
Next ==
    \/ \E q \in Queries, n \in env.nums : create_query(q, n)
    \/ \E i \in JobIds : add_task_resume(i)
    \/ \E i \in JobIds : get_query_result(i)
    \/ get_system_status
    \/ \E i \in JobIds : worker_start(i)
    \/ \E i \in JobIds : search_web(i)
    \/ \E i \in JobIds : loop_head(i)
    \/ \E i \in JobIds : fetch_return(i)
    \/ \E i \in JobIds : draft(i)
    \/ \E i \in JobIds : refine(i)
    \/ \E i \in JobIds : complete(i)
    \/ \E i \in JobIds : except(i)

\* Several concurrent submissions.
Spec == Init /\ [][Next]_vars

\* One submission, with every kind of hit, page and num_results.
SpecCollect == InitCollect /\ [][Next]_vars

\* Scheduling.  The event loop runs every ready coroutine in turn: a worker
\* that holds the loop runs on to its next suspension point, a task that has
\* been created is started, and add_task is resumed once its task is done.
\* The page fetch has a 10 s timeout (line 155); the search and the model
\* calls are taken to return or to raise.  No assumption is made on clients:
\* submissions, reads and summaries may or may not arrive.
\* One step of the worker of job i; its position allows one of them at a time.
WorkerStep(i) ==
    \/ worker_start(i)
    \/ search_web(i)
    \/ loop_head(i)
    \/ fetch_return(i)
    \/ draft(i)
    \/ refine(i)
    \/ complete(i)
    \/ except(i)

WorkerFairness(i) == WF_vars(WorkerStep(i)) /\ WF_vars(add_task_resume(i))

\* Several concurrent submissions on a fairly scheduled event loop.
SpecFair == InitFair /\ [][Next]_vars /\ \A i \in JobIds : WorkerFairness(i)

(***************************************************************************)
(* Properties                                                              *)
(***************************************************************************)
Created == DOMAIN query_store
IsSet(x) == x # None
Status(i) == query_store[i].status

\* C1: the create call returns before the job's worker has made progress,
\* and the snapshot it returns has status `initiated`.
C1_CreateReturnsInitiated ==
    response.op = "create" =>
        /\ response.body.status = "initiated"
        /\ worker[response.id].pc = "scheduled"

\* C2: once a job's status is `completed` or `failed`, no step (worker step,
\* status read, status summary, other submission) changes it.
C2_TerminalStatusIsFinal ==
    [][\A i \in Created :
          Terminal(Status(i)) => query_store'[i].status = Status(i)]_vars

\* A terminal job is read while its task is still registered (the window in
\* which get_query_result inspects the finished task) and another job is
\* waiting for a page.
C2_Witness ==
    \E i \in Created, j \in Created :
        /\ i # j
        /\ Terminal(Status(i))
        /\ i \in tasks
        /\ response.op = "get" /\ response.id = i /\ response.code = 200
        /\ Terminal(response.body[1].status)
        /\ worker[j].pc = "fetching"

\* C3: every status change is initiated->searching, searching->completed or
\* searching->failed, and a job is created in `initiated`.
StatusSteps ==
    {<<"initiated", "searching">>, <<"searching", "completed">>,
     <<"searching", "failed">>}

C3_StatusStepsAreLegal ==
    [][\A i \in DOMAIN query_store' :
          IF i \in Created
          THEN \/ query_store'[i].status = Status(i)
               \/ <<Status(i), query_store'[i].status>> \in StatusSteps
          ELSE query_store'[i].status = "initiated"]_vars

\* A job whose search returned no hit has been completed: its worker wrote
\* `searching` and `completed` without giving up the event loop in between.
C3_Witness ==
    \E i \in Created :
        /\ Status(i) = "completed"
        /\ worker[i].searched # <<>>
        /\ worker[i].search_results = <<>>
        /\ worker[i].fetched = <<>>

\* C4: answer/sources and error are never both set, and each of answer,
\* sources and error, once set, is never changed or cleared.
ResultAndErrorExclusive ==
    \A i \in Created :
        ~ /\ IsSet(query_store[i].answer) \/ IsSet(query_store[i].sources)
          /\ IsSet(query_store[i].error)

SetFieldsKept ==
    \A i \in Created :
        /\ IsSet(query_store[i].answer) =>
               query_store'[i].answer = query_store[i].answer
        /\ IsSet(query_store[i].sources) =>
               query_store'[i].sources = query_store[i].sources
        /\ IsSet(query_store[i].error) =>
               query_store'[i].error = query_store[i].error

C4_ResultFieldsSetOnce == []ResultAndErrorExclusive /\ [][SetFieldsKept]_vars

\* One job holds an answer with a source, another holds an error, and both
\* have been returned by their create calls.
C4_Witness ==
    \E i \in Created, j \in Created :
        /\ IsSet(query_store[i].answer)
        /\ IsSet(query_store[i].sources) /\ query_store[i].sources[1] # <<>>
        /\ IsSet(query_store[j].error)
        /\ tasks = {}

\* C5: a reader never sees a torn record: whenever a handler can run,
\* status = completed exactly when answer, sources and processing_time are
\* all set, status = failed exactly when error is set, and in initiated and
\* searching all four are unset; the same holds of every record a status
\* read has returned.
Whole(rec) ==
    /\ rec.status = "completed" <=>
           IsSet(rec.answer) /\ IsSet(rec.sources) /\ IsSet(rec.processing_time)
    /\ rec.status = "failed" <=> IsSet(rec.error)
    /\ rec.status \in {"initiated", "searching"} =>
           /\ ~IsSet(rec.answer) /\ ~IsSet(rec.sources)
           /\ ~IsSet(rec.processing_time) /\ ~IsSet(rec.error)

C5_ReadersSeeWholeRecords ==
    /\ running = 0 => \A i \in Created : Whole(query_store[i])
    /\ response.op = "get" /\ response.code = 200 => Whole(response.body[1])

\* A read returned a record in `searching` while that job's worker waits
\* for a page, and another job has been completed.
C5_Witness ==
    /\ response.op = "get" /\ response.code = 200
    /\ response.body[1].status = "searching"
    /\ worker[response.id].pc = "fetching"
    /\ \E j \in Created : Status(j) = "completed"

\* C6: a status read leaves the store as it is and returns the stored
\* record; the status, answer, sources and error of a terminal job are the
\* same in every later state, so all reads of it return the same.
ReadFields(rec) == <<rec.status, rec.answer, rec.sources, rec.error>>

C6_ReadsDoNotMutate ==
    [][\A i \in Created :
          /\ get_query_result(i) =>
                 /\ query_store' = query_store
                 /\ response'.body = Some(query_store[i])
          /\ Terminal(Status(i)) =>
                 ReadFields(query_store'[i]) = ReadFields(query_store[i])]_vars

\* A terminal job has been read after its create call returned, while
\* another job is still in progress.
C6_Witness ==
    \E i \in Created, j \in Created :
        /\ Terminal(Status(i))
        /\ i \notin tasks
        /\ response.op = "get" /\ response.id = i /\ response.code = 200
        /\ response.body[1] = query_store[i]
        /\ ~Terminal(Status(j))

\* The provider answered job i's search, and the for loop over its hits has
\* been left (or was never entered because there were no hits).
SearchReturned(f) == f.searched # <<>> /\ ~(IsSet(f.exc) /\ f.prompts = <<>>)
CollectionOver(f) ==
    /\ SearchReturned(f)
    /\ f.pc \notin {"scheduled", "search", "loop", "fetching"}

\* C7: when the collection ends with no accepted item (no hits, or every hit
\* rejected), the language model is not called, the job is never `failed`,
\* and it ends `completed` with a canned answer, sources = [] and no error.
C7_NoEvidenceCompletes ==
    \A i \in Created :
        CollectionOver(worker[i]) /\ worker[i].verified_contents = <<>> =>
            /\ worker[i].prompts = <<>>
            /\ Status(i) # "failed"
            /\ worker[i].pc = "done" =>
                   /\ Status(i) = "completed"
                   /\ query_store[i].answer \in
                          {Some(NoResultsAnswer), Some(UnverifiedAnswer)}
                   /\ query_store[i].sources = Some(<<>>)
                   /\ query_store[i].error = None

\* A job is done whose hits were all rejected, one of them after its page
\* was fetched and failed the quality check.
C7_Witness ==
    \E i \in Created :
        /\ worker[i].pc = "done"
        /\ worker[i].verified_contents = <<>>
        /\ worker[i].search_results # <<>>
        /\ worker[i].fetched # <<>>
        /\ Status(i) = "completed"

\* C8: a failing search or model call moves the job from `searching` to
\* `failed` with error set and answer/sources unset; the exception does not
\* leave the task, and the step touches no other job.
FailureRecorded ==
    \A i \in Created :
        IsSet(worker[i].exc) /\ worker[i].pc = "done" =>
            /\ Status(i) = "failed"
            /\ query_store[i].error = worker[i].exc
            /\ query_store[i].answer = None
            /\ query_store[i].sources = None
            /\ TaskException(worker, i) = None

FailureContained ==
    \A i \in Created :
        except(i) =>
            /\ Status(i) = "searching"
            /\ query_store'[i].status = "failed"
            /\ \A j \in Created \ {i} :
                   query_store'[j] = query_store[j] /\ worker'[j] = worker[j]

C8_FailuresEndInFailed == []FailureRecorded /\ [][FailureContained]_vars

\* One job failed in its draft call and its create call has returned the
\* failed record, while another job was completed with an answer.
C8_Witness ==
    \E i \in Created, j \in Created :
        /\ worker[i].exc = Some("draft failed")
        /\ Status(i) = "failed"
        /\ response.op = "create" /\ response.id = i /\ response.code = 200
        /\ Status(j) = "completed"

\* C9: for every integer num_results the collector never accepts more than
\* num_results items (for a negative num_results: it accepts none).
Max(a, b) == IF a > b THEN a ELSE b

C9_AtMostTargetAccepted ==
    \A i \in Created :
        IsSet(worker[i].num_results) =>
            Len(worker[i].verified_contents) <= Max(worker[i].num_results[1], 0)

\* C10: the accepted sources are the first num_results hits, in provider
\* order, that have a link and pass both checks (all of them if there are
\* fewer); every hit was fetched at most once and in provider order, and no
\* hit is fetched after num_results items were accepted.
PassesQuality(e) == check_content_quality(e.content)
Ranks(entries) == [k \in 1..Len(entries) |-> entries[k].rank]
SourceRanks(sources) == [k \in 1..Len(sources) |-> sources[k].title[2]]

FirstAccepted(f) ==
    LET passing == Ranks(SelectSeq(f.fetched, PassesQuality))
    IN  SubSeq(passing, 1, Min(f.num_results[1], Len(passing)))

C10_FirstTargetInProviderOrder ==
    \A i \in Created :
        LET f == worker[i] IN
        CollectionOver(f) /\ f.num_results[1] >= 0 =>
            /\ SourceRanks(f.verified_sources) = FirstAccepted(f)
            /\ \A k \in 1..Len(f.fetched) :
                   /\ LinkTest(f.search_results[f.fetched[k].rank])
                   /\ k > 1 => f.fetched[k - 1].rank < f.fetched[k].rank
            /\ IF Len(f.verified_sources) < f.num_results[1]
               THEN \A r \in 1..Len(f.search_results) :
                        LinkTest(f.search_results[r]) =>
                            \E k \in 1..Len(f.fetched) : f.fetched[k].rank = r
               ELSE f.fetched # <<>> =>
                        f.fetched[Len(f.fetched)].rank =
                            f.verified_sources[Len(f.verified_sources)].title[2]

\* The failures that can follow the collection: those of the two model calls.
LlmFailures == {Some("draft failed"), Some("refine failed")}

\* C11: a page fetch that raises never ends the collection and never yields
\* an evidence item: its synthetic text always fails the quality check.
C11_FetchErrorsAreSkipped ==
    \A i \in Created :
        /\ \A k \in 1..Len(worker[i].fetched) :
               worker[i].fetched[k].content.err =>
                   ~check_content_quality(worker[i].fetched[k].content)
        /\ \A k \in 1..Len(worker[i].verified_contents) :
               ~worker[i].verified_contents[k].content.err
        /\ worker[i].fetched # <<>> /\ IsSet(worker[i].exc) =>
               worker[i].exc \in LlmFailures

\* C12: with evidence, a successful job made exactly the draft call and then
\* the refine call, whose prompt holds the draft's reply, and stores the
\* refine reply; after a failed draft no refine call is made; a failed pass
\* leaves the job failed without an answer.
C12_TwoPassSynthesis ==
    \A i \in Created :
        LET f == worker[i]
            first == DraftPrompt(query_store[i].query, f.verified_contents)
            second == VerificationPrompt(Completion(first))
        IN  /\ Len(f.prompts) <= 2
            /\ f.verified_contents = <<>> => f.prompts = <<>>
            /\ f.exc = Some("draft failed") => f.prompts = <<first>>
            /\ f.exc = Some("refine failed") => f.prompts = <<first, second>>
            /\ f.pc = "done" /\ f.verified_contents # <<>> =>
                   IF Status(i) = "completed"
                   THEN /\ f.prompts = <<first, second>>
                        /\ query_store[i].answer = Some(Completion(second))
                   ELSE /\ f.exc \in LlmFailures
                        /\ Status(i) = "failed"
                        /\ query_store[i].answer = None

\* One job was completed after both calls, another failed in its refine call.
C12_Witness ==
    \E i \in Created, j \in Created :
        /\ Status(i) = "completed" /\ Len(worker[i].prompts) = 2
        /\ Status(j) = "failed" /\ worker[j].exc = Some("refine failed")
        /\ Len(worker[j].prompts) = 2

\* C13: every job id has one worker, started once; the id is in
\* TaskManager.tasks from its creation until the worker has finished, is
\* removed when add_task resumes, after a completed and after a failed
\* worker alike, is never registered again, and its record stays in the store.
WorkerRegistered ==
    /\ DOMAIN worker = Created
    /\ tasks \subseteq Created
    /\ \A i \in Created : worker[i].pc # "done" => i \in tasks
    /\ response.op = "create" =>
           /\ response.id \in Created \ tasks
           /\ TaskDone(worker, response.id)

WorkerSteps ==
    \A i \in JobIds :
        /\ i \in Created =>
               /\ i \in DOMAIN query_store'
               /\ worker'[i].pc = "scheduled" => worker[i].pc = "scheduled"
               /\ i \notin tasks => i \notin tasks'
        /\ i \notin Created /\ i \in DOMAIN query_store' =>
               /\ i \in tasks'
               /\ worker'[i].pc = "scheduled"
        /\ i \in tasks /\ i \notin tasks' =>
               /\ TaskDone(worker, i)
               /\ Terminal(Status(i))
               /\ response'.op = "create" /\ response'.id = i

OwnQuery(i, entries) ==
    \A k \in 1..Len(entries) : entries[k].title[1] = query_store[i].query

WrittenByOwnWorker(i) ==
    LET f == worker[i]
        rec == query_store[i]
    IN  /\ rec.query_id = i
        /\ rec.query = f.query
        /\ (rec.status = "initiated") <=> (f.pc = "scheduled")
        /\ Terminal(rec.status) <=> (f.pc = "done")
        /\ rec.status = "completed" <=> (f.pc = "done" /\ ~IsSet(f.exc))
        /\ rec.status = "completed" =>
               /\ rec.answer = Some(f.result[1].answer)
               /\ rec.sources = Some(f.result[1].sources)
               /\ rec.error = None
        /\ rec.status = "failed" => rec.error = f.exc /\ rec.sources = None
        /\ ~Terminal(rec.status) =>
               rec.answer = None /\ rec.sources = None /\ rec.error = None

FromOwnHits(i) ==
    LET f == worker[i]
        rec == query_store[i]
    IN  /\ \A k \in 1..Len(f.search_results) :
               f.search_results[k].q = rec.query
        /\ OwnQuery(i, f.verified_contents)
        /\ OwnQuery(i, f.verified_sources)
        /\ \A k \in 1..Len(f.verified_sources) :
               f.verified_sources[k] =
                   VerifiedSource(f.search_results[f.verified_sources[k].title[2]])
        /\ \A k \in 1..Len(f.prompts) :
               f.prompts[k].kind = "draft" =>
                   /\ f.prompts[k].query = rec.query
                   /\ f.prompts[k].evidence = f.verified_contents
        /\ rec.status = "completed" =>
               /\ rec.sources = Some(f.verified_sources)
               /\ f.verified_contents # <<>> =>
                      rec.answer = Some(Completion(VerificationPrompt(
                          Completion(DraftPrompt(rec.query, f.verified_contents)))))

C14_JobsAreIsolated ==
    /\ Cardinality(Created) = next_id - 1
    /\ Created = 1..(next_id - 1)
    /\ \A i \in Created : WrittenByOwnWorker(i) /\ FromOwnHits(i)

\* Two jobs with different queries were in flight together and both are
\* completed with sources; the create call of the later one returned first.
C14_Witness ==
    /\ Created = {1, 2}
    /\ query_store[1].query # query_store[2].query
    /\ \A i \in Created :
           Status(i) = "completed" /\ query_store[i].sources # Some(<<>>)
    /\ tasks = {1}
    /\ response.op = "create" /\ response.id = 2

\* C15: the status summary reports, for each status, the number of stored
\* jobs in it (a status no job is in has no entry); the counts add up to the
\* reported total, which is the number of records; the reported active
\* count is the number of entries of TaskManager.tasks; and the step that
\* answers the summary changes nothing but the response.
Statuses == {"initiated", "searching", "completed", "failed"}

RECURSIVE CountStatus(_, _)
CountStatus(n, st) ==
    IF n = 0 THEN 0
    ELSE CountStatus(n - 1, st)
         + (IF n \in Created /\ Status(n) = st THEN 1 ELSE 0)

Reported(body, st) ==
    IF st \in DOMAIN body.queries_by_status
    THEN body.queries_by_status[st] ELSE 0

SummaryIsTrue(body) ==
    /\ DOMAIN body.queries_by_status \subseteq Statuses
    /\ \A st \in DOMAIN body.queries_by_status : body.queries_by_status[st] > 0
    /\ \A st \in Statuses : Reported(body, st) = CountStatus(next_id - 1, st)
    /\ body.total_queries =
           Reported(body, "initiated") + Reported(body, "searching")
           + Reported(body, "completed") + Reported(body, "failed")
    /\ body.total_queries = next_id - 1
    /\ body.total_queries = Cardinality(Created)
    /\ body.active_tasks = Cardinality(tasks)

SummaryStep ==
    response'.op = "status" /\ response' # response =>
        /\ UNCHANGED <<query_store, tasks, worker, running, next_id, env>>
        /\ response'.code = 200
        /\ SummaryIsTrue(response'.body)

C15_StatusSummaryCounts == [][SummaryStep]_vars

\* A summary was answered with two jobs in two different statuses, one of
\* them no longer registered.
C15_Witness ==
    /\ response.op = "status"
    /\ response.body.total_queries = 2
    /\ response.body.active_tasks = 1
    /\ Cardinality(DOMAIN response.body.queries_by_status) = 2
    /\ SummaryIsTrue(response.body)

\* C16: a read for an id that no create call has returned is answered 404
\* and leaves the store and TaskManager.tasks as they are; a read for a
\* created id is answered with that job's record at every point of its
\* lifetime; no record is ever removed.
ReturnedByCreate == Created \ tasks

ReadStep(i) ==
    response'.op = "get" /\ response'.id = i /\ response' # response

ReadOfStoredId(i) ==
    /\ response'.code = 200
    /\ response'.body = Some(query_store'[i])
    /\ response'.body[1].query_id = i

ReadOfUnknownId ==
    /\ response'.code = 404
    /\ response'.body = None
    /\ UNCHANGED <<query_store, tasks>>

ReadSteps ==
    \A i \in JobIds :
        /\ i \in Created => i \in DOMAIN query_store'
        /\ ReadStep(i) /\ i \in Created => ReadOfStoredId(i)
        /\ ReadStep(i) /\ i \notin ReturnedByCreate => ReadOfUnknownId

C16_ReadsByReturnedId == [][ReadSteps]_vars

\* C17: every source of a job comes from a hit that has a link whose domain
\* is credible and whose fetched text has at least 50 characters after
\* strip() and no spam phrase; a page is fetched only for a hit that has a
\* link with a credible domain; a completed job stores exactly those sources.
CredibleLink(link) ==
    /\ link # None
    /\ link[1].valid
    /\ \A w \in suspicious_patterns : w \notin link[1].netloc

GoodText(text) == text.tlen >= MinContentLength /\ ~text.spam

VerifiedEntry(f, src) ==
    LET rank == src.title[2]
    IN  /\ rank \in 1..Len(f.search_results)
        /\ CredibleLink(f.search_results[rank].link)
        /\ src.url = f.search_results[rank].link[1]
        /\ \E k \in 1..Len(f.fetched) :
               f.fetched[k].rank = rank /\ GoodText(f.fetched[k].content)

C17_SourcesAreVerified ==
    \A i \in Created :
        LET f == worker[i]
        IN  /\ \A k \in 1..Len(f.verified_sources) :
                   VerifiedEntry(f, f.verified_sources[k])
            /\ \A k \in 1..Len(f.fetched) :
                   CredibleLink(f.search_results[f.fetched[k].rank].link)
            /\ f.pc = "fetching" => CredibleLink(f.search_results[f.idx].link)
            /\ Status(i) = "completed" =>
                   query_store[i].sources = Some(f.verified_sources)

\* A completed job with one source, whose other hit was fetched and
\* rejected for its text.
C17_Witness ==
    \E i \in Created :
        /\ Status(i) = "completed"
        /\ Len(query_store[i].sources[1]) = 1
        /\ Len(worker[i].fetched) = 2
        /\ \E k \in 1..2 : worker[i].fetched[k].content.spam

\* A completed job with one source, whose other hit was not fetched because
\* its domain is not credible.
C17_SkippedWitness ==
    \E i \in Created :
        /\ Status(i) = "completed"
        /\ Len(query_store[i].sources[1]) = 1
        /\ Len(worker[i].fetched) = 1
        /\ \E k \in 1..Len(worker[i].search_results) :
               worker[i].search_results[k].link = Some(SpamUrl)

\* C18: on a fairly scheduled event loop whose outbound calls return or
\* raise, every created job reaches completed or failed, whatever the other
\* jobs do and whenever they are submitted.
C18_EveryJobEnds ==
    \A i \in JobIds :
        (i \in Created) ~> (i \in Created /\ Terminal(Status(i)))

\* Two jobs were in flight together; one has failed and the other has been
\* completed.
C18_Witness ==
    /\ Created = {1, 2}
    /\ Status(1) = "failed" /\ Status(2) = "completed"
    /\ response.op = "create" /\ response.id = 1
    /\ tasks = {2}

\* C19: nothing is retried.  A finished job has called the search provider
\* exactly once, asking for twice its num_results; no hit's page is fetched
\* twice; the draft prompt and the refine prompt are each submitted at most
\* once, whether the call returned or raised.
CallsOfKind(f, kind) ==
    Cardinality({k \in 1..Len(f.prompts) : f.prompts[k].kind = kind})

NoRetry(f) ==
    /\ Len(f.searched) <= 1
    /\ \A k \in 1..Len(f.searched) :
           IsSet(f.num_results) /\ f.searched[k] = 2 * f.num_results[1]
    /\ \A k1 \in 1..Len(f.fetched), k2 \in 1..Len(f.fetched) :
           f.fetched[k1].rank = f.fetched[k2].rank => k1 = k2
    /\ CallsOfKind(f, "draft") <= 1
    /\ CallsOfKind(f, "verify") <= 1

C19_NoRetries ==
    \A i \in Created :
        /\ NoRetry(worker[i])
        /\ worker[i].pc = "done" => Len(worker[i].searched) = 1

\* C20: in every state, and so in every state a request handler can see,
\* each job whose status is initiated or searching has its entry in
\* TaskManager.tasks (the record and the entry are written by one step of
\* create_query); hence the number of entries, which the status summary
\* reports as active, is never below the number of such jobs.
NonTerminal == {i \in Created : ~Terminal(Status(i))}

C20_NonTerminalJobsAreRegistered ==
    /\ NonTerminal \subseteq tasks
    /\ Cardinality(tasks) >= Cardinality(NonTerminal)
    /\ response.op = "status" =>
           response.body.active_tasks >=
               Reported(response.body, "initiated")
               + Reported(response.body, "searching")

\* A summary was answered while one job was initiated and another searching,
\* both registered.
C20_Witness ==
    /\ response.op = "status"
    /\ response.body.active_tasks = 2
    /\ Reported(response.body, "initiated") = 1
    /\ Reported(response.body, "searching") = 1
    /\ running = 0
    /\ Cardinality(NonTerminal) = 2

====
